---- MODULE Spec2Model ----
(***************************************************************************)
(* A model of atlasc (src/src/atlasc.c): main, atlasc_make and the helpers *)
(* it calls, as one state machine.  The third-party primitives atlasc.c    *)
(* includes (sx, stb_image, stb_rect_pack, sproutline, delaunay, sjson)    *)
(* are modelled by their contracts.                                        *)
(***************************************************************************)
EXTENDS Integers, Sequences, FiniteSets, TLC

(***************************************************************************)
(* Bounds of the model.                                                    *)
(***************************************************************************)
MaxBorder == 1
MaxPadding == 1
MaxSheet == 6
FixedPointScale == 1000
MaxThreshold2 == 20
MaxExtent == 9
MaxLineCoord == 3
LineImageSize == 3
FixImageSize == 4

(***************************************************************************)
(* Program constants.                                                      *)
(***************************************************************************)
INT_MAX == 2147483647
INT_MIN == (-INT_MAX) - 1
DefaultAlphaThreshold == 20
DefaultMaxVerts == 25
BytesPerPixel == 4
AlignTo == 3
UINT16_MOD == 65536

\* A pointer is NULL or holds the object it points to.
NULL == <<>>
Ptr(obj) == <<obj>>

(***************************************************************************)
(* Small helpers.                                                          *)
(***************************************************************************)
Min(a, b) == IF a < b THEN a ELSE b
Max(a, b) == IF a > b THEN a ELSE b
Abs(a) == IF a < 0 THEN -a ELSE a
Range(s) == {s[k] : k \in DOMAIN s}

\* C int subtraction a - b.  Signed overflow is undefined behaviour; the
\* value a wrapping build produces is computed without leaving 32 bits.
SubOverflows(a, b) ==
  \/ b > 0 /\ a < INT_MIN + b
  \/ b < 0 /\ a > INT_MAX + b
WrapSub(a, b) ==
  IF b > 0 /\ a < INT_MIN + b THEN ((a - INT_MIN) + (INT_MAX - b)) + 1
  ELSE IF b < 0 /\ a > INT_MAX + b THEN ((a - INT_MAX) + (INT_MIN - b)) - 1
  ELSE a - b

(***************************************************************************)
(* sx rectangles (sx/math.h).                                              *)
(***************************************************************************)
sx_irecti(x0, y0, x1, y1) == [xmin |-> x0, ymin |-> y0, xmax |-> x1, ymax |-> y1]
sx_irectwh(x, y, w, h) == sx_irecti(x, y, x + w, y + h)
sx_irect_add_point(rc, p) ==
  sx_irecti(Min(rc.xmin, p[1]), Min(rc.ymin, p[2]),
            Max(rc.xmax, p[1]), Max(rc.ymax, p[2]))
sx_irect_expand(rc, ex, ey) ==
  sx_irecti(rc.xmin - ex, rc.ymin - ey, rc.xmax + ex, rc.ymax + ey)
EmptyRect == sx_irecti(INT_MAX, INT_MAX, INT_MIN, INT_MIN)
ZeroRect == sx_irecti(0, 0, 0, 0)

(***************************************************************************)
(* The input files.  A path is a sequence of characters; a file is missing,*)
(* not an image, or an RGBA image given by its size and its alpha channel  *)
(* (solid pixels have alpha 255, faint pixels alpha 10, the rest alpha 0). *)
(* trace is the order in which the outline extractor walks the outline     *)
(* pixels of the image (clockwise, x right, y down).                       *)
(***************************************************************************)
Image(w, h, solid, faint, trace) ==
  [kind |-> "image", w |-> w, h |-> h, solid |-> solid, faint |-> faint,
   trace |-> trace]
NoImage(kind) ==
  [kind |-> kind, w |-> 0, h |-> 0, solid |-> {}, faint |-> {}, trace |-> <<>>]

P_sq == <<"s", "q">>
P_dot == <<"d", "\\", "t">>
P_col == <<"c">>
P_wide == <<"w">>
P_px == <<"p">>
P_empty == <<"e">>
P_bad == <<"b">>
P_missing == <<"m">>

Img_sq ==
  Image(6, 6, {<<2, 2>>, <<3, 2>>, <<2, 3>>, <<3, 3>>}, {<<5, 5>>},
        << <<1, 1>>, <<2, 1>>, <<3, 1>>, <<4, 1>>, <<4, 2>>, <<4, 3>>,
           <<4, 4>>, <<3, 4>>, <<2, 4>>, <<1, 4>>, <<1, 3>>, <<1, 2>> >>)
Img_dot ==
  Image(3, 3, {<<1, 1>>}, {},
        << <<0, 0>>, <<1, 0>>, <<2, 0>>, <<2, 1>>, <<2, 2>>, <<1, 2>>,
           <<0, 2>>, <<0, 1>> >>)
Img_col ==
  Image(1, 3, {<<0, 0>>, <<0, 1>>, <<0, 2>>}, {},
        << <<0, 0>>, <<0, 1>>, <<0, 2>> >>)
Img_wide ==
  Image(7, 5, {<<2, 2>>, <<3, 2>>, <<4, 2>>}, {},
        << <<1, 1>>, <<2, 1>>, <<3, 1>>, <<4, 1>>, <<5, 1>>, <<5, 2>>, <<5, 3>>,
           <<4, 3>>, <<3, 3>>, <<2, 3>>, <<1, 3>>, <<1, 2>> >>)
Img_px == Image(1, 1, {<<0, 0>>}, {}, << <<0, 0>> >>)
Img_empty == Image(2, 2, {}, {<<0, 1>>}, <<>>)

FileAt(path) ==
  CASE path = P_sq -> Img_sq
    [] path = P_dot -> Img_dot
    [] path = P_col -> Img_col
    [] path = P_wide -> Img_wide
    [] path = P_px -> Img_px
    [] path = P_empty -> Img_empty
    [] path = P_bad -> NoImage("bad")
    [] OTHER -> NoImage("missing")

Pixels(w, h) == (0 .. (w - 1)) \X (0 .. (h - 1))

\* The alpha byte of a source pixel (s2o_rgba_to_alpha).
AlphaOf(img, p) ==
  IF p \in img.solid THEN 255 ELSE IF p \in img.faint THEN 10 ELSE 0

\* s2o_alpha_to_thresholded: the set of pixels whose mask byte is non-zero.
s2o_alpha_to_thresholded(img, threshold) ==
  {p \in Pixels(img.w, img.h) : AlphaOf(img, p) >= threshold}

\* s2o_dilate_thresholded: one 3x3 dilation, neighbours outside the image
\* count as 0.
s2o_dilate_thresholded(img, mask) ==
  {p \in Pixels(img.w, img.h) :
     \E q \in mask : Abs(p[1] - q[1]) <= 1 /\ Abs(p[2] - q[2]) <= 1}

\* s2o_thresholded_to_outlined: the set pixels with an unset 4-neighbour; the
\* pixels of the image's first and last row and column are copied.
s2o_thresholded_to_outlined(img, mask) ==
  {p \in mask :
     \/ p[1] = 0 \/ p[1] = img.w - 1 \/ p[2] = 0 \/ p[2] = img.h - 1
     \/ <<p[1] - 1, p[2]>> \notin mask \/ <<p[1] + 1, p[2]>> \notin mask
     \/ <<p[1], p[2] - 1>> \notin mask \/ <<p[1], p[2] + 1>> \notin mask}

\* s2o_extract_outline_path: the outline pixels as one ordered path; empty
\* for an empty mask.
s2o_extract_outline_path(img, outlined) ==
  IF outlined = {} THEN <<>> ELSE img.trace

\* The trace of each image of the catalogue walks exactly its outline pixels.
TraceIsOutline(img) ==
  LET T == s2o_alpha_to_thresholded(img, DefaultAlphaThreshold)
      O == s2o_thresholded_to_outlined(img, s2o_dilate_thresholded(img, T))
  IN  Range(img.trace) = O /\ Len(img.trace) = Cardinality(O)

\* The bounding rectangle of the outline (atlasc_make, the loop over pts).
RECURSIVE BoundsFrom(_, _, _)
BoundsFrom(rc, pts, k) ==
  IF k > Len(pts) THEN rc
  ELSE BoundsFrom(sx_irect_add_point(rc, pts[k]), pts, k + 1)
SpriteRectOf(pts) == BoundsFrom(EmptyRect, pts, 1)

(***************************************************************************)
(* Float arithmetic of atlasc__offset_pt, in fixed point: a float v is the *)
(* integer v * FixedPointScale.                                            *)
(***************************************************************************)
FP == FixedPointScale

\* a / b rounded toward zero (b > 0), as the cast (int) rounds.
DivT(a, b) == IF a >= 0 THEN a \div b ELSE -((-a) \div b)

RECURSIVE ISqrtIn(_, _, _)
ISqrtIn(n, lo, hi) ==
  IF lo >= hi THEN lo
  ELSE LET Half(mid) == IF mid * mid <= n THEN ISqrtIn(n, mid, hi)
                        ELSE ISqrtIn(n, lo, mid - 1)
       IN  CHOOSE r \in {Half(mid) : mid \in {(lo + hi + 1) \div 2}} : TRUE
ISqrt(n) == CHOOSE r \in {ISqrtIn(m, 0, 46340) : m \in {n}} : TRUE

\* sx_vec2_norm of the integer vector d (d # 0), in fixed point.
NormI(d) ==
  CHOOSE r \in {<<DivT(d[1] * FP * FP, len), DivT(d[2] * FP * FP, len)>> :
                  len \in {ISqrt((d[1] * d[1] + d[2] * d[2]) * FP * FP)}} : TRUE

\* sx_vec2_norm of the fixed-point vector v (v # 0).
NormF(v) ==
  CHOOSE r \in {<<DivT(u[1] * FP, len), DivT(u[2] * FP, len)>> :
                  u \in {v}, len \in {ISqrt(v[1] * v[1] + v[2] * v[2])}} : TRUE

sx_clamp(v, lo, hi) == IF v < lo THEN lo ELSE IF v > hi THEN hi ELSE v

PrevIdx(n, k) == IF k > 1 THEN k - 1 ELSE n
NextIdx(n, k) == IF k + 1 <= n THEN k + 1 ELSE 1

\* atlasc__offset_pt: the displaced value of pts[k] before the cast, in fixed
\* point.  The cross product of the two unit edge vectors is within 1e-5 of 0
\* exactly when the integer cross product is 0 (coordinates below 300).
OffsetVec(pts, k, amount) ==
  LET n == Len(pts)
      pt == pts[k]
      prev == pts[PrevIdx(n, k)]
      next == pts[NextIdx(n, k)]
      d1 == <<prev[1] - pt[1], prev[2] - pt[2]>>
      d2 == <<next[1] - pt[1], next[2] - pt[2]>>
      cz == d1[1] * d2[2] - d1[2] * d2[1]
      kk == IF cz < 0 THEN -1 ELSE 1
      Displaced(edge1, edge2) ==
        LET bis == NormF(<<edge1[1] + edge2[1], edge1[2] + edge2[2]>>)
            nv == IF cz = 0 THEN <<(-edge1[2]) * amount, edge1[1] * amount>>
                  ELSE <<bis[1] * kk * amount, bis[2] * kk * amount>>
        IN  <<pt[1] * FP + nv[1], pt[2] * FP + nv[2]>>
  IN  CHOOSE r \in {Displaced(edge1, edge2) : edge1 \in {NormI(d1)}, edge2 \in {NormI(d2)}} :
        TRUE

\* A zero edge vector is normalised to NaN (or to 0 by an approximate rsqrt).
DegenerateAt(pts, k) ==
  LET n == Len(pts)
  IN  pts[PrevIdx(n, k)] = pts[k] \/ pts[NextIdx(n, k)] = pts[k]

\* A variant of atlasc__offset_pt that rounds half away from zero, not toward
\* zero.
atlasc__offset_pt_round(pts, k, amount, w, h) ==
  IF DegenerateAt(pts, k) THEN {<<0, 0>>, pts[k]}
  ELSE LET v == OffsetVec(pts, k, amount)
           half == FP \div 2
           rnd(a) == IF a >= 0 THEN DivT(a + half, FP) ELSE DivT(a - half, FP)
       IN  {<<sx_clamp(rnd(v[1]), 0, w), sx_clamp(rnd(v[2]), 0, h)>>}

\* atlasc__offset_pt: the points pts[k] may be replaced by.  One point, except
\* for a zero edge, where the cast of NaN is undefined: the stored point is
\* (0,0), or pts[k] when the normalised zero edge is 0.
atlasc__offset_pt(pts, k, amount, w, h) ==
  IF DegenerateAt(pts, k) THEN {<<0, 0>>, pts[k]}
  ELSE LET v == OffsetVec(pts, k, amount)
       IN  {<<sx_clamp(DivT(v[1], FP), 0, w), sx_clamp(DivT(v[2], FP), 0, h)>>}

\* atlasc__test_line: Bresenham from p0 to p1 over the mask; (x, y) is the
\* pixel the walk stands on and err its error term.
RECURSIVE TestLineFrom(_, _, _, _, _, _, _, _)
TestLineFrom(mask, w, h, p0, p1, x, y, err) ==
  LET dx == Abs(p1[1] - p0[1])
      dy == -Abs(p1[2] - p0[2])
      sx == IF p0[1] < p1[1] THEN 1 ELSE -1
      sy == IF p0[2] < p1[2] THEN 1 ELSE -1
  IN  IF x > -1 /\ y > -1 /\ x < w /\ y < h /\ <<x, y>> \in mask THEN TRUE
      ELSE IF x = p1[1] /\ y = p1[2] THEN FALSE
      ELSE LET e2 == 2 * err
               stepx == e2 >= dy
               err1 == IF stepx THEN err + dy ELSE err
               nx == IF stepx THEN x + sx ELSE x
               stepy == e2 <= dx
               err2 == IF stepy THEN err1 + dx ELSE err1
               ny == IF stepy THEN y + sy ELSE y
           IN  CHOOSE r \in {TestLineFrom(mask, w, h, p0, p1, t[1], t[2], t[3]) :
                                t \in {<<nx, ny, err2>>}} : TRUE
atlasc__test_line(mask, w, h, p0, p1) ==
  TestLineFrom(mask, w, h, p0, p1, p0[1], p0[2],
               Abs(p1[1] - p0[1]) - Abs(p1[2] - p0[2]))

(***************************************************************************)
(* s2o_distance_based_path_simplification.  eps2 is twice the distance     *)
(* threshold (the thresholds are multiples of 0.5).  From each kept point  *)
(* the path is followed for as long as every skipped point stays within    *)
(* the threshold of the chord; the point where the chord ends is kept.     *)
(***************************************************************************)
\* The point of index j of the closed path P (index Len(P) + 1 is P[1] again).
Closed(P, j) == IF j > Len(P) THEN P[1] ELSE P[j]

\* Is p within eps2 / 2 of the line through a and b (of a, when a = b)?
WithinDistance(p, a, b, eps2) ==
  LET abx == b[1] - a[1]
      aby == b[2] - a[2]
      apx == p[1] - a[1]
      apy == p[2] - a[2]
      cr == abx * apy - aby * apx
  IN  IF abx = 0 /\ aby = 0 THEN 4 * (apx * apx + apy * apy) <= eps2 * eps2
      ELSE 4 * cr * cr <= eps2 * eps2 * (abx * abx + aby * aby)

SpanOK(P, a, j, eps2) ==
  \A m \in (a + 1) .. (j - 1) : WithinDistance(P[m], P[a], Closed(P, j), eps2)

RECURSIVE Farthest(_, _, _, _)
Farthest(P, a, j, eps2) ==
  IF j + 1 <= Len(P) + 1 /\ SpanOK(P, a, j + 1, eps2)
  THEN Farthest(P, a, j + 1, eps2) ELSE j

RECURSIVE SimplifyFrom(_, _, _, _)
SimplifyFrom(P, a, acc, eps2) ==
  LET Rest(j) == IF j > Len(P) THEN acc ELSE SimplifyFrom(P, j, Append(acc, P[j]), eps2)
  IN  CHOOSE r \in {Rest(j) : j \in {Farthest(P, a, a + 1, eps2)}} : TRUE

s2o_distance_based_path_simplification(P, eps2) ==
  IF Len(P) = 0 THEN <<>> ELSE SimplifyFrom(P, 1, <<P[1]>>, eps2)

(***************************************************************************)
(* delaunay2d_from / tri_delaunay2d_from: a triangulation of the points.   *)
(* The points come back without exact duplicates; the triangles index them *)
(* from 0.  Fewer than three points break the primitive's precondition.    *)
(***************************************************************************)
RECURSIVE Dedup(_, _, _)
Dedup(P, k, acc) ==
  IF k > Len(P) THEN acc
  ELSE Dedup(P, k + 1, IF P[k] \in Range(acc) THEN acc ELSE Append(acc, P[k]))

Area2(a, b, c) == (b[1] - a[1]) * (c[2] - a[2]) - (b[2] - a[2]) * (c[1] - a[1])

RECURSIVE FanFrom(_, _, _)
FanFrom(P, k, acc) ==
  IF k + 1 > Len(P) THEN acc
  ELSE FanFrom(P, k + 1,
               IF Area2(P[1], P[k], P[k + 1]) = 0 THEN acc
               ELSE acc \o <<0, k - 1, k>>)

tri_delaunay2d_from(P) ==
  LET Q == Dedup(P, 1, <<>>)
  IN  [points |-> Q, tris |-> FanFrom(Q, 2, <<>>)]

(***************************************************************************)
(* sx_align_mask, sx_nearest_pow2, sx_os_path_unixpath.                    *)
(***************************************************************************)
\* (v + mask) & ~mask for mask = 2^k - 1 and v >= 0.
sx_align_mask(v, mask) == ((v + mask) \div (mask + 1)) * (mask + 1)

\* The smallest power of two that is >= n; 0 for n = 0 (n - 1 has every bit
\* set, the smeared value plus one wraps to 0).
RECURSIVE Pow2From(_, _)
Pow2From(n, p) == IF p >= n THEN p ELSE Pow2From(n, 2 * p)
sx_nearest_pow2(n) == IF n <= 0 THEN 0 ELSE Pow2From(n, 1)

IsPow2(n) == n > 0 /\ Pow2From(n, 1) = n

\* sx_os_path_unixpath: every backslash becomes a slash.
sx_os_path_unixpath(path) ==
  [k \in DOMAIN path |-> IF path[k] = "\\" THEN "/" ELSE path[k]]

(***************************************************************************)
(* stbrp_pack_rects.  Rectangles are placed in input order, each at the    *)
(* lowest then leftmost position of the sheet where it covers no pixel of  *)
(* an earlier one; the call fails when some rectangle has no position.     *)
(***************************************************************************)
RectPixels(x, y, w, h) == (x .. (x + w - 1)) \X (y .. (y + h - 1))

Fits(placed, r, x, y, W, H) ==
  /\ x + r.w <= W
  /\ y + r.h <= H
  /\ \A k \in DOMAIN placed :
       RectPixels(x, y, r.w, r.h)
         \cap RectPixels(placed[k].x, placed[k].y, placed[k].w, placed[k].h) = {}

Positions(placed, r, W, H) ==
  {q \in (0 .. W) \X (0 .. H) : Fits(placed, r, q[1], q[2], W, H)}

BottomLeft(S) ==
  CHOOSE q \in S : \A o \in S : q[2] < o[2] \/ (q[2] = o[2] /\ q[1] <= o[1])

RECURSIVE PackFrom(_, _, _, _, _)
PackFrom(rects, k, placed, W, H) ==
  IF k > Len(rects) THEN [ok |-> TRUE, rects |-> placed]
  ELSE LET S == Positions(placed, rects[k], W, H)
       IN  IF S = {} THEN [ok |-> FALSE, rects |-> rects]
           ELSE LET q == BottomLeft(S)
                IN  PackFrom(rects, k + 1,
                             Append(placed, [rects[k] EXCEPT !.x = q[1], !.y = q[2]]),
                             W, H)

stbrp_pack_rects(rects, W, H) == PackFrom(rects, 1, <<>>, W, H)

(***************************************************************************)
(* The state of one run of the program.                                    *)
(***************************************************************************)
VARIABLES
  pc,          \* the statement main / atlasc_make is about to execute
  args,        \* atlasc_args, as main fills it from the command line
  sprites,     \* atlasc_make's sprites array
  cur,         \* the index i of the load loop of atlasc_make (from 1)
  work,        \* the locals of one iteration of the load loop and of make_mesh
  pack,        \* rp_rects, the packer's verdict and final_rect
  dst,         \* the canvas: dst_w, dst_h and the pixels of dst
  heap,        \* the buffers atlasc_make and its callees hold
  faults,      \* the memory errors and undefined operations executed so far
  files,       \* the output files on disk
  ret,         \* what atlasc_make returned
  exit_code,   \* the exit status of the process ("running" until it ends)
  g_error_str, \* the global error string
  console      \* what was printed

vars == <<pc, args, sprites, cur, work, pack, dst, heap, faults, files, ret,
          exit_code, g_error_str, console>>

P_out == <<"o">>

InputLists ==
  { <<>>, <<P_missing>>, <<P_bad>>, <<P_sq>>, <<P_dot>>, <<P_col>>, <<P_empty>>,
    <<P_sq, P_dot>>, <<P_dot, P_dot>>, <<P_dot, P_col>>, <<P_sq, P_bad>>,
    <<P_empty, P_dot>>, <<P_sq, P_missing>>, <<P_wide>>, <<P_px>> }

\* The command lines of the model: -i lists, -o, -B, -P, -2, -m and -M (main
\* stores any -M value, 0 included).
CommandLines ==
  { [in_filepaths |-> il, out_filepath |-> o, num_inputs |-> 0,
     alpha_threshold |-> DefaultAlphaThreshold,
     max_width |-> MaxSheet, max_height |-> MaxSheet,
     border |-> b, padding |-> p, pot |-> t, mesh |-> m[1],
     max_verts_per_mesh |-> m[2]] :
      il \in InputLists, o \in {NULL, Ptr(P_out)},
      b \in 0 .. MaxBorder, p \in 0 .. MaxPadding, t \in BOOLEAN,
      m \in {<<FALSE, DefaultMaxVerts>>, <<TRUE, 0>>, <<TRUE, 3>>, <<TRUE, 4>>} }

\* A zeroed atlasc__sprite (the memset of atlasc_make).
ZeroSprite ==
  [src_image |-> NULL, src_size |-> <<0, 0>>, sprite_rect |-> ZeroRect,
   sheet_rect |-> ZeroRect, num_tris |-> 0, num_points |-> 0,
   pts |-> NULL, uvs |-> NULL, tris |-> NULL]

NoWork ==
  [pts |-> <<>>, thresholded |-> {}, sprite_rect |-> ZeroRect, temp_pts |-> <<>>,
   threshold2 |-> 0, i |-> 0]

NoPack == [rects |-> <<>>, ok |-> FALSE, final_rect |-> ZeroRect]
NoDst == [w |-> 0, h |-> 0, px |-> <<>>]
NoFiles == [png |-> FALSE, json |-> NULL]

\* The images of the catalogue: each trace is the outline of its image.
Catalogue == {Img_sq, Img_dot, Img_col, Img_wide, Img_px, Img_empty}

Init ==
  /\ \A img \in Catalogue : TraceIsOutline(img)
  /\ pc = "main"
  /\ args \in CommandLines
  /\ sprites = <<>>
  /\ cur = 0
  /\ work = NoWork
  /\ pack = NoPack
  /\ dst = NoDst
  /\ heap = {}
  /\ faults = {}
  /\ files = NoFiles
  /\ ret = "none"
  /\ exit_code = "running"
  /\ g_error_str = ""
  /\ console = {}

num_sprites == Len(sprites)

\* The process dies on the spot (a failed assertion of a debug build, a
\* memory fault): nothing is released, nothing more is written.
Crash(fault) ==
  /\ pc' = "crashed"
  /\ exit_code' = "killed"
  /\ faults' = faults \cup {fault}
  /\ UNCHANGED <<args, sprites, cur, work, pack, dst, heap, files, ret,
                 g_error_str, console>>

\* sx_free of the buffers bs: releasing a buffer that is not held is a fault.
FreeFaults(bs) == IF bs \subseteq heap THEN {} ELSE {"bad_free"}

(***************************************************************************)
(* main: the checks after the option loop, then the call of atlasc_make.   *)
(***************************************************************************)
sx_os_path_isfile(path) == FileAt(path).kind # "missing"

MainExit(code, msg) ==
  /\ pc' = "done"
  /\ exit_code' = code
  /\ console' = console \cup {msg}
  /\ UNCHANGED <<args, sprites, cur, work, pack, dst, heap, faults, files, ret,
                 g_error_str>>

\* A variant of main that does not test the input paths.
main_no_isfile ==
  /\ pc = "main"
  /\ IF args.in_filepaths = <<>>
     THEN MainExit("-1", "must set at least one input file (-i)")
     ELSE IF args.out_filepath = NULL
     THEN MainExit("-1", "must set output file (-o)")
     ELSE /\ args' = [args EXCEPT !.num_inputs = Len(args.in_filepaths)]
          /\ pc' = "make"
          /\ UNCHANGED <<sprites, cur, work, pack, dst, heap, faults, files, ret,
                         exit_code, g_error_str, console>>

main ==
  /\ pc = "main"
  /\ IF args.in_filepaths = <<>>
     THEN MainExit("-1", "must set at least one input file (-i)")
     ELSE IF args.out_filepath = NULL
     THEN MainExit("-1", "must set output file (-o)")
     ELSE IF \E k \in DOMAIN args.in_filepaths : ~sx_os_path_isfile(args.in_filepaths[k])
     THEN MainExit("-1", "Invalid file path")
     ELSE /\ args' = [args EXCEPT !.num_inputs = Len(args.in_filepaths)]
          /\ pc' = "make"
          /\ UNCHANGED <<sprites, cur, work, pack, dst, heap, faults, files, ret,
                         exit_code, g_error_str, console>>

(***************************************************************************)
(* atlasc_make.                                                            *)
(***************************************************************************)
\* atlasc_make returns r to main without touching anything else.
Return(r) ==
  /\ pc' = "returned"
  /\ ret' = r

\* The buffers atlasc__free_sprites releases.
SpriteBuffers(sp) ==
  UNION { (IF sp[k].src_image # NULL THEN {<<"src_image", k>>} ELSE {})
          \cup (IF sp[k].tris # NULL THEN {<<"tris", k>>} ELSE {})
          \cup (IF sp[k].pts # NULL THEN {<<"pts", k>>} ELSE {})
          \cup (IF sp[k].uvs # NULL THEN {<<"uvs", k>>} ELSE {}) : k \in DOMAIN sp }
    \cup {<<"sprites", 0>>}

\* The allocation of the sprites array and its memset.
make_alloc_sprites ==
  /\ pc = "make"
  /\ \/ /\ Return("false")
        /\ UNCHANGED <<sprites, cur, heap>>
     \/ /\ sprites' = [k \in 1 .. args.num_inputs |-> ZeroSprite]
        /\ heap' = heap \cup {<<"sprites", 0>>}
        /\ cur' = 1
        /\ pc' = "load"
        /\ UNCHANGED ret
  /\ UNCHANGED <<args, work, pack, dst, faults, files, exit_code, g_error_str, console>>

\* One iteration of the load loop up to the mesh: the file checks, the
\* decoding, the outline of the sprite and its bounding rectangle.  The file
\* may have gone since main looked for it.
load_sprite ==
  /\ pc = "load"
  /\ cur <= num_sprites
  /\ LET path == args.in_filepaths[cur]
         img == FileAt(path)
         fail(msg) ==
           /\ g_error_str' = msg
           /\ faults' = faults \cup FreeFaults(SpriteBuffers(sprites))
           /\ heap' = heap \ SpriteBuffers(sprites)
           /\ Return("false")
           /\ UNCHANGED <<sprites, work>>
     IN  \/ fail("input image not found")
         \/ /\ img.kind = "bad"
            /\ fail("invalid image format")
         \/ /\ img.kind = "image"
            /\ LET T == s2o_alpha_to_thresholded(img, args.alpha_threshold)
                   O == s2o_thresholded_to_outlined(img, s2o_dilate_thresholded(img, T))
                   pts == s2o_extract_outline_path(img, O)
               IN  /\ sprites' = [sprites EXCEPT ![cur].src_image = Ptr(path),
                                                 ![cur].src_size = <<img.w, img.h>>]
                   /\ work' = [NoWork EXCEPT !.pts = pts, !.thresholded = T,
                                             !.sprite_rect = SpriteRectOf(pts)]
                   /\ heap' = heap \cup {<<"src_image", cur>>, <<"thresholded", 0>>,
                                         <<"outline", 0>>}
                   /\ pc' = IF args.mesh THEN "make_mesh" ELSE "end_sprite"
                   /\ UNCHANGED <<ret, faults, g_error_str>>
  /\ UNCHANGED <<args, cur, pack, dst, files, exit_code, console>>

\* The end of the iteration: the outline and the mask are released and the
\* bounding rectangle is stored.
end_sprite ==
  /\ pc = "end_sprite"
  /\ faults' = faults \cup FreeFaults({<<"outline", 0>>, <<"thresholded", 0>>})
  /\ heap' = heap \ {<<"outline", 0>>, <<"thresholded", 0>>}
  /\ sprites' = [sprites EXCEPT ![cur].sprite_rect = work.sprite_rect]
  /\ work' = NoWork
  /\ cur' = cur + 1
  /\ pc' = "load"
  /\ UNCHANGED <<args, pack, dst, files, ret, exit_code, g_error_str, console>>

(***************************************************************************)
(* atlasc__make_mesh, called from the load loop when args.mesh is set.     *)
(***************************************************************************)
\* The allocation of temp_pts; on failure make_mesh returns to the loop.
make_mesh ==
  /\ pc = "make_mesh"
  /\ \/ /\ pc' = "end_sprite"
        /\ UNCHANGED <<work, heap>>
     \/ /\ heap' = heap \cup {<<"temp_pts", 0>>}
        /\ work' = [work EXCEPT !.threshold2 = 1]
        /\ pc' = "simplify"
  /\ UNCHANGED <<args, sprites, cur, pack, dst, faults, files, ret, exit_code,
                 g_error_str, console>>

\* The head of the do-while body: num_verts = pt_count and the outline is
\* copied into temp_pts.
simplify_copy ==
  /\ pc = "simplify"
  /\ work' = [work EXCEPT !.temp_pts = work.pts]
  /\ pc' = "simplify_run"
  /\ UNCHANGED <<args, sprites, cur, pack, dst, heap, faults, files, ret, exit_code,
                 g_error_str, console>>

\* The threshold after threshold += delta.  A float stops growing when 0.5
\* is below half its spacing; the model stops it at MaxThreshold2, from where
\* on no outline of the catalogue simplifies any further.
NextThreshold2(t2) == IF t2 >= MaxThreshold2 THEN t2 ELSE t2 + 1

\* A variant of simplify_pass that leaves the loop after its first pass.
simplify_pass_once ==
  /\ pc = "simplify_run"
  /\ LET tp == s2o_distance_based_path_simplification(work.temp_pts, work.threshold2)
     IN  /\ work' = [work EXCEPT !.temp_pts = tp,
                                 !.threshold2 = NextThreshold2(@), !.i = 1]
         /\ pc' = "fix_outline"
  /\ UNCHANGED <<args, sprites, cur, pack, dst, heap, faults, files, ret, exit_code,
                 g_error_str, console>>

\* The rest of the body and the loop test: temp_pts is simplified with the
\* current threshold, the threshold grows by delta, and the loop goes on
\* while num_verts > max_verts.
simplify_pass ==
  /\ pc = "simplify_run"
  /\ LET tp == s2o_distance_based_path_simplification(work.temp_pts, work.threshold2)
     IN  /\ work' = [work EXCEPT !.temp_pts = tp,
                                 !.threshold2 = NextThreshold2(@), !.i = 1]
         /\ pc' = IF Len(tp) > args.max_verts_per_mesh THEN "simplify" ELSE "fix_outline"
  /\ UNCHANGED <<args, sprites, cur, pack, dst, heap, faults, files, ret, exit_code,
                 g_error_str, console>>

\* The byte thresholded[lin] of the mask of the current sprite.
MaskByteSet(lin) ==
  LET w == sprites[cur].src_size[1]
  IN  <<lin % w, lin \div w>> \in work.thresholded

MaskInBounds(lin) ==
  lin >= 0 /\ lin < sprites[cur].src_size[1] * sprites[cur].src_size[2]

\* atlasc__fix_outline_pts, the head of the for loop: the loop ends, or the
\* assertion on pts[i] is evaluated.  A failed assertion stops a debug build
\* and is nothing in a release build; a read past the mask yields any byte.
fix_outline_next ==
  /\ pc = "fix_outline"
  /\ IF work.i > Len(work.temp_pts)
     THEN /\ pc' = "triangulate"
          /\ UNCHANGED <<exit_code, faults>>
     ELSE LET pt == work.temp_pts[work.i]
              lin == pt[2] * sprites[cur].src_size[1] + pt[1]
          IN  \/ /\ MaskInBounds(lin) => ~MaskByteSet(lin)
                 /\ pc' = "fix_while"
                 /\ faults' = IF MaskInBounds(lin) THEN faults
                              ELSE faults \cup {"read_past_mask"}
                 /\ UNCHANGED exit_code
              \/ /\ MaskInBounds(lin) => MaskByteSet(lin)
                 /\ \/ /\ pc' = "crashed"
                       /\ exit_code' = "killed"
                    \/ /\ pc' = "fix_while"
                       /\ UNCHANGED exit_code
                 /\ faults' = faults \cup
                      (IF MaskInBounds(lin) THEN {"assert_point_in_mask"}
                       ELSE {"read_past_mask", "assert_point_in_mask"})
  /\ UNCHANGED <<args, sprites, cur, work, pack, dst, heap, files, ret,
                 g_error_str, console>>

\* One evaluation of the while condition and, when the edge from pts[i] to
\* pts[next_i] crosses the mask, one execution of the body.
fix_outline_while ==
  /\ pc = "fix_while"
  /\ LET pts == work.temp_pts
         n == Len(pts)
         i == work.i
         next_i == NextIdx(n, i)
         w == sprites[cur].src_size[1]
         h == sprites[cur].src_size[2]
         leave == /\ work' = [work EXCEPT !.i = i + 1]
                  /\ pc' = "fix_outline"
     IN  IF ~atlasc__test_line(work.thresholded, w, h, pts[i], pts[next_i])
         THEN leave
         ELSE \E p1 \in atlasc__offset_pt(pts, i, 2, w, h) :
                IF p1 = pts[i]
                THEN leave
                ELSE LET pts1 == [pts EXCEPT ![i] = p1]
                     IN  \E p2 \in atlasc__offset_pt(pts1, next_i, 2, w, h) :
                           /\ work' = [work EXCEPT !.temp_pts = [pts1 EXCEPT ![next_i] = p2]]
                           /\ pc' = "fix_while"
  /\ UNCHANGED <<args, sprites, cur, pack, dst, heap, faults, files, ret, exit_code,
                 g_error_str, console>>

UInt16(v) == v % UINT16_MOD

\* The triangulation and the copy of its result into the sprite.  With fewer
\* than three points the triangulator is used outside its contract: the
\* process dies or an empty triangulation comes back.
triangulate ==
  /\ pc = "triangulate"
  /\ LET m == Len(work.temp_pts)
         res == IF m < 3 THEN [points |-> <<>>, tris |-> <<>>]
                ELSE tri_delaunay2d_from(work.temp_pts)
         t == Len(res.tris) \div 3
     IN  \/ /\ pc' = "end_sprite"
            /\ UNCHANGED <<sprites, heap, faults, exit_code>>
         \/ /\ m < 3
            /\ pc' = "crashed"
            /\ exit_code' = "killed"
            /\ faults' = faults \cup {"triangulate_under_three"}
            /\ UNCHANGED <<sprites, heap>>
         \/ /\ sprites' = [sprites EXCEPT
                 ![cur].tris = Ptr([k \in 1 .. (3 * t) |-> UInt16(res.tris[k])]),
                 ![cur].pts = Ptr(res.points),
                 ![cur].num_tris = UInt16(t),
                 ![cur].num_points = Len(res.points)]
            /\ faults' = faults \cup FreeFaults({<<"temp_pts", 0>>})
                           \cup (IF m < 3 THEN {"triangulate_under_three"} ELSE {})
            /\ heap' = (heap \ {<<"temp_pts", 0>>}) \cup {<<"tris", cur>>, <<"pts", cur>>}
            /\ pc' = "end_sprite"
            /\ UNCHANGED exit_code
  /\ UNCHANGED <<args, cur, work, pack, dst, files, ret, g_error_str, console>>

(***************************************************************************)
(* atlasc_make after the load loop: packing, canvas, UVs, blit, save.      *)
(***************************************************************************)
\* The loop is over: rp_rects and rp_nodes are allocated.  When either
\* allocation fails atlasc_make returns at once.
pack_alloc ==
  /\ pc = "load"
  /\ cur > num_sprites
  /\ \/ \E held \in SUBSET {<<"rp_rects", 0>>, <<"rp_nodes", 0>>} :
          /\ held # {<<"rp_rects", 0>>, <<"rp_nodes", 0>>}
          /\ heap' = heap \cup held
          /\ Return("false")
     \/ /\ heap' = heap \cup {<<"rp_rects", 0>>, <<"rp_nodes", 0>>}
        /\ pc' = "pack"
        /\ UNCHANGED ret
  /\ UNCHANGED <<args, sprites, cur, work, pack, dst, faults, files, exit_code,
                 g_error_str, console>>

\* xmax - xmin and ymax - ymin of a rectangle, as a wrapping build computes
\* them, and whether the subtraction overflows int.
RectW(rc) == WrapSub(rc.xmax, rc.xmin)
RectH(rc) == WrapSub(rc.ymax, rc.ymin)
RectOverflows(rc) == SubOverflows(rc.xmax, rc.xmin) \/ SubOverflows(rc.ymax, rc.ymin)

\* A variant of RpRects that forgets the padding.
RpRects_no_padding(sp, a) ==
  [k \in DOMAIN sp |->
     [x |-> 0, y |-> 0, w |-> RectW(sp[k].sprite_rect) + a.border * 2,
      h |-> RectH(sp[k].sprite_rect) + a.border * 2]]

\* rp_rects as the loop before stbrp_init_target fills it.
RpRects(sp, a) ==
  LET rc_resize == (a.border + a.padding) * 2
  IN  [k \in DOMAIN sp |->
         [x |-> 0, y |-> 0, w |-> RectW(sp[k].sprite_rect) + rc_resize,
          h |-> RectH(sp[k].sprite_rect) + rc_resize]]

\* final_rect after the first k rectangles of the success branch.
RECURSIVE FinalRectFrom(_, _, _)
FinalRectFrom(rc, rects, k) ==
  IF k > Len(rects) THEN rc
  ELSE LET sheet_rect == sx_irectwh(rects[k].x, rects[k].y, rects[k].w, rects[k].h)
       IN  FinalRectFrom(
             sx_irect_add_point(
               sx_irect_add_point(rc, <<sheet_rect.xmin, sheet_rect.ymin>>),
               <<sheet_rect.xmax, sheet_rect.ymax>>),
             rects, k + 1)

\* A variant of SheetRectOf that grows the packed rectangle by the border.
SheetRectOf_grown(r, border) ==
  sx_irect_expand(sx_irectwh(r.x, r.y, r.w, r.h), border, border)

\* The sheet_rect stored for a packed rectangle: the packed rectangle shrunk
\* by the border.
SheetRectOf(r, border) ==
  sx_irect_expand(sx_irectwh(r.x, r.y, r.w, r.h), -border, -border)

\* The packing: rp_rects is filled, the packer runs, and only when it
\* succeeds are final_rect and the sheet_rects computed.
pack_rects ==
  /\ pc = "pack"
  /\ LET ovf == \E k \in DOMAIN sprites : RectOverflows(sprites[k].sprite_rect)
         res == stbrp_pack_rects(RpRects(sprites, args), args.max_width, args.max_height)
     IN  \/ /\ ovf
            /\ Crash("signed_overflow")
         \/ /\ faults' = IF ovf THEN faults \cup {"signed_overflow"} ELSE faults
            /\ pack' = [rects |-> res.rects, ok |-> res.ok,
                        final_rect |-> IF res.ok THEN FinalRectFrom(EmptyRect, res.rects, 1)
                                       ELSE EmptyRect]
            /\ sprites' = IF res.ok
                          THEN [k \in DOMAIN sprites |->
                                  [sprites[k] EXCEPT
                                     !.sheet_rect = SheetRectOf(res.rects[k], args.border)]]
                          ELSE sprites
            /\ pc' = "canvas"
            /\ UNCHANGED <<args, cur, work, dst, heap, files, ret, exit_code,
                           g_error_str, console>>

Blank == <<0, 0, 0>>

\* dst_w or dst_h from the extent of final_rect: aligned, then a power of two
\* under --pot.
\* A variant of CanvasDim that always moves on to the next multiple of four.
CanvasDim_next_multiple(extent, pot) ==
  LET aligned == ((extent \div (AlignTo + 1)) + 1) * (AlignTo + 1)
  IN  IF pot THEN sx_nearest_pow2(aligned) ELSE aligned

CanvasDim(extent, pot) ==
  LET aligned == sx_align_mask(extent, AlignTo)
  IN  IF pot THEN sx_nearest_pow2(aligned) ELSE aligned

\* The size of the canvas and its allocation.  dst is cleared before it is
\* tested: clearing a null dst of non-zero size kills the process.
size_canvas ==
  /\ pc = "canvas"
  /\ LET ovf == RectOverflows(pack.final_rect)
         dst_w == CanvasDim(RectW(pack.final_rect), args.pot)
         dst_h == CanvasDim(RectH(pack.final_rect), args.pot)
     IN  \/ /\ ovf
            /\ Crash("signed_overflow")
         \/ /\ dst_w * dst_h * BytesPerPixel > 0
            /\ Crash("memset_null")
         \/ /\ dst_w * dst_h * BytesPerPixel = 0
            /\ dst' = [NoDst EXCEPT !.w = dst_w, !.h = dst_h]
            /\ faults' = IF ovf THEN faults \cup {"signed_overflow"} ELSE faults
            /\ Return("false")
            /\ UNCHANGED <<args, sprites, cur, work, pack, heap, files, exit_code,
                           g_error_str, console>>
         \/ /\ dst' = [w |-> dst_w, h |-> dst_h, px |-> [k \in 1 .. (dst_w * dst_h) |-> Blank]]
            /\ faults' = IF ovf THEN faults \cup {"signed_overflow"} ELSE faults
            /\ heap' = heap \cup {<<"dst", 0>>}
            /\ pc' = "uvs"
            /\ UNCHANGED <<args, sprites, cur, work, pack, files, ret, exit_code,
                           g_error_str, console>>

\* The uvs of one sprite: each point moved from the sprite_rect to the
\* sheet_rect past the padding.
UVsOf(spr, padding) ==
  LET offset == <<spr.sprite_rect.xmin, spr.sprite_rect.ymin>>
      sheet_pos == <<spr.sheet_rect.xmin + padding, spr.sheet_rect.ymin + padding>>
      pts == spr.pts[1]
  IN  [k \in 1 .. spr.num_points |->
         <<(pts[k][1] - offset[1]) + sheet_pos[1], (pts[k][2] - offset[2]) + sheet_pos[2]>>]

\* A variant of HasMeshPoints that tests uvs where the code tests pts.
HasMeshPoints_uvs(spr) == spr.uvs # NULL /\ spr.num_points # 0

HasMeshPoints(spr) == spr.pts # NULL /\ spr.num_points # 0

\* The UV loop (skipped without --mesh).
calc_uvs ==
  /\ pc = "uvs"
  /\ sprites' = IF args.mesh
                THEN [k \in DOMAIN sprites |->
                        IF HasMeshPoints(sprites[k])
                        THEN [sprites[k] EXCEPT !.uvs = Ptr(UVsOf(sprites[k], args.padding))]
                        ELSE sprites[k]]
                ELSE sprites
  /\ heap' = IF args.mesh
             THEN heap \cup {<<"uvs", k>> : k \in {j \in DOMAIN sprites : HasMeshPoints(sprites[j])}}
             ELSE heap
  /\ pc' = "blit"
  /\ UNCHANGED <<args, cur, work, pack, dst, faults, files, ret, exit_code,
                 g_error_str, console>>

(***************************************************************************)
(* atlasc__blit.  dst and src are addressed linearly, as the pointer        *)
(* arithmetic does: pixel (x, y) of the canvas is px[y * dst_w + x + 1].    *)
(* A canvas pixel holds Blank or <<k, x, y>>, the pixel (x, y) of the       *)
(* source image of sprite k; <<k, -1, -1>> is a read outside that image.    *)
(***************************************************************************)
\* The rectangle the blit of a sprite is aimed at: its sheet_rect without the
\* padding.
DstRect(spr, padding) == sx_irect_expand(spr.sheet_rect, -padding, -padding)

\* The canvas index written for row r and column c of the blit.
DstIndex(spr, padding, dst_w, r, c) ==
  (DstRect(spr, padding).ymin + r) * dst_w + DstRect(spr, padding).xmin + c

SrcAddressable(spr) ==
  /\ spr.sprite_rect.xmin >= 0 /\ spr.sprite_rect.xmin <= spr.src_size[1]
  /\ spr.sprite_rect.ymin >= 0 /\ spr.sprite_rect.ymin <= spr.src_size[2]

\* The source pixel copied for row r and column c of the blit of sprite k.
SrcPixel(k, spr, r, c) ==
  IF ~SrcAddressable(spr) THEN <<k, -1, -1>>
  ELSE LET lin == (spr.sprite_rect.ymin + r) * spr.src_size[1] + spr.sprite_rect.xmin + c
       IN  IF lin < spr.src_size[1] * spr.src_size[2]
           THEN <<k, lin % spr.src_size[1], lin \div spr.src_size[1]>>
           ELSE <<k, -1, -1>>

BlitCells(spr) == (0 .. (RectH(spr.sprite_rect) - 1)) \X (0 .. (RectW(spr.sprite_rect) - 1))

atlasc__blit(px, dst_w, k, spr, padding) ==
  [L \in DOMAIN px |->
     LET hits == {q \in BlitCells(spr) : DstIndex(spr, padding, dst_w, q[1], q[2]) = L - 1}
     IN  IF hits = {} THEN px[L]
         ELSE LET q == CHOOSE o \in hits : \A o2 \in hits : o2[1] <= o[1]
              IN  SrcPixel(k, spr, q[1], q[2])]

BlitOutOfBounds(size, dst_w, k, spr, padding) ==
  \E q \in BlitCells(spr) :
    \/ DstIndex(spr, padding, dst_w, q[1], q[2]) < 0
    \/ DstIndex(spr, padding, dst_w, q[1], q[2]) >= size
    \/ SrcPixel(k, spr, q[1], q[2]) = <<k, -1, -1>>

RECURSIVE BlitFrom(_, _, _, _, _)
BlitFrom(px, dst_w, sp, k, padding) ==
  IF k > Len(sp) THEN px
  ELSE BlitFrom(atlasc__blit(px, dst_w, k, sp[k], padding), dst_w, sp, k + 1, padding)

\* The blit loop over all sprites.  A copy that leaves dst or src is a
\* memory error: the process dies, or goes on with memory it does not own
\* overwritten or read.
blit_sprites ==
  /\ pc = "blit"
  /\ LET ovf == \E k \in DOMAIN sprites : RectOverflows(sprites[k].sprite_rect)
         oob == \E k \in DOMAIN sprites :
                  BlitOutOfBounds(Len(dst.px), dst.w, k, sprites[k], args.padding)
         bad == (IF ovf THEN {"signed_overflow"} ELSE {})
                  \cup (IF oob THEN {"blit_out_of_bounds"} ELSE {})
     IN  \/ /\ oob
            /\ Crash("blit_out_of_bounds")
         \/ /\ dst' = [dst EXCEPT !.px = BlitFrom(dst.px, dst.w, sprites, 1, args.padding)]
            /\ faults' = faults \cup bad
            /\ pc' = "save"
            /\ UNCHANGED <<args, sprites, cur, work, pack, heap, files, ret, exit_code,
                           g_error_str, console>>

(***************************************************************************)
(* atlasc__save: the PNG, then the manifest.                               *)
(***************************************************************************)
\* The "mesh" object of a sprite; written only when num_tris is not 0.
MeshEntry(spr) ==
  [num_tris |-> spr.num_tris, num_vertices |-> spr.num_points,
   indices |-> SubSeq(spr.tris[1], 1, spr.num_tris * 3),
   positions |-> SubSeq(spr.pts[1], 1, spr.num_points),
   uvs |-> SubSeq(spr.uvs[1], 1, spr.num_points)]

\* A variant of SpriteEntry that writes the first sprite at every index.
SpriteEntry_first(a, sp, k) ==
  [name |-> sx_os_path_unixpath(a.in_filepaths[1]), size |-> sp[1].src_size,
   sprite_rect |-> sp[1].sprite_rect, sheet_rect |-> sp[1].sheet_rect,
   mesh |-> NULL]

SpriteEntry(a, sp, k) ==
  [name |-> sx_os_path_unixpath(a.in_filepaths[k]), size |-> sp[k].src_size,
   sprite_rect |-> sp[k].sprite_rect, sheet_rect |-> sp[k].sheet_rect,
   mesh |-> IF sp[k].num_tris # 0 THEN Ptr(MeshEntry(sp[k])) ELSE NULL]

Manifest(a, sp, d) ==
  [image_width |-> d.w, image_height |-> d.h,
   sprites |-> [k \in 1 .. Len(sp) |-> SpriteEntry(a, sp, k)]]

\* A failed stbi_write_png is only reported; the manifest is written all the
\* same.  The three failures of the manifest return false, the last two
\* without releasing the json context or the encoded text.
atlasc__save ==
  /\ pc = "save"
  /\ \E png_ok \in BOOLEAN, json \in {"no_context", "no_text", "no_file", "written"} :
       /\ files' = [png |-> files.png \/ png_ok,
                    json |-> IF json = "written" THEN Ptr(Manifest(args, sprites, dst))
                             ELSE files.json]
       /\ console' = console
            \cup (IF png_ok THEN {} ELSE {"could not write image"})
            \cup (IF json = "no_file" THEN {"could not open file for writing"} ELSE {})
       /\ heap' = heap \cup (CASE json = "no_text" -> {<<"jctx", 0>>}
                               [] json = "no_file" -> {<<"jctx", 0>>, <<"jout", 0>>}
                               [] OTHER -> {})
       /\ ret' = IF json = "written" THEN "true" ELSE "false"
       /\ pc' = "saved"
  /\ UNCHANGED <<args, sprites, cur, work, pack, dst, faults, exit_code, g_error_str>>

\* The end of atlasc_make: everything is released and r is returned.
make_cleanup ==
  /\ pc = "saved"
  /\ LET bs == {<<"rp_nodes", 0>>, <<"rp_rects", 0>>, <<"dst", 0>>}
                 \cup SpriteBuffers(sprites)
     IN  /\ faults' = faults \cup FreeFaults(bs)
         /\ heap' = heap \ bs
  /\ pc' = "returned"
  /\ UNCHANGED <<args, sprites, cur, work, pack, dst, files, ret, exit_code,
                 g_error_str, console>>

\* main after atlasc_make: the exit status is 0 when it returned true.
main_return ==
  /\ pc = "returned"
  /\ exit_code' = IF ret = "true" THEN "0" ELSE "-1"
  /\ pc' = "done"
  /\ UNCHANGED <<args, sprites, cur, work, pack, dst, heap, faults, files, ret,
                 g_error_str, console>>

Next ==
  \/ main
  \/ make_alloc_sprites
  \/ load_sprite
  \/ make_mesh
  \/ simplify_copy
  \/ simplify_pass
  \/ fix_outline_next
  \/ fix_outline_while
  \/ triangulate
  \/ end_sprite
  \/ pack_alloc
  \/ pack_rects
  \/ size_canvas
  \/ calc_uvs
  \/ blit_sprites
  \/ atlasc__save
  \/ make_cleanup
  \/ main_return

Spec == Init /\ [][Next]_vars

\* The process is never suspended inside the simplification loop: while a
\* statement of the loop is the next one, it is executed.
FairSpec == Spec /\ WF_vars(simplify_copy) /\ WF_vars(simplify_pass)

(***************************************************************************)
(* The properties.                                                         *)
(***************************************************************************)
\* The packer ran and reported that not all rectangles fit.
PackFailed == pack.rects # <<>> /\ ~pack.ok

ManifestWritten == files.json # NULL
ManifestOnDisk == files.json[1]

\* The pixels a rectangle covers.
Region(rc) == RectPixels(rc.xmin, rc.ymin, rc.xmax - rc.xmin, rc.ymax - rc.ymin)

\* C1: when the packer reports that not all sprites fit, atlasc_make returns
\* false, the exit code is not 0, and neither the PNG nor the manifest is
\* written.
C1_PackFailureIsFatal ==
  PackFailed =>
    /\ ~files.png
    /\ ~ManifestWritten
    /\ ret # "true"
    /\ exit_code # "0"

\* C2: at the end of every run either both output files were written and
\* atlasc_make returned true, or neither was written and it did not return
\* true.
C2_NoPartialAtlas ==
  pc = "done" =>
    \/ files.png /\ ManifestWritten /\ ret = "true"
    \/ ~files.png /\ ~ManifestWritten /\ ret # "true"

\* C3: whenever atlasc_make has returned, every buffer acquired during the
\* call has been released, and none was released twice.
C3_AllBuffersReleased ==
  pc = "returned" => heap = {} /\ "bad_free" \notin faults

\* C4: after a successful pack the sheet_rects of two distinct sprites, each
\* expanded by border on every side, cover no common pixel.
C4_SheetRectsDisjoint ==
  pack.ok =>
    \A i \in DOMAIN sprites : \A j \in DOMAIN sprites :
      i # j =>
        Region(sx_irect_expand(sprites[i].sheet_rect, args.border, args.border))
          \cap Region(sx_irect_expand(sprites[j].sheet_rect, args.border, args.border)) = {}

\* Two sprites were packed with a border, each into a region of positive
\* size, and the build ran to its end.
C4_Witness ==
  /\ pc = "done"
  /\ pack.ok
  /\ args.border >= 1
  /\ Len(sprites) = 2
  /\ \A k \in DOMAIN sprites :
       Region(sx_irect_expand(sprites[k].sheet_rect, args.border, args.border)) # {}

\* C5 as stated: in the manifest of a completed build the sheet_rect of every
\* sprite is as wide and as high as its sprite_rect.
C5_SheetRectSizeIsSpriteRectSize ==
  ManifestWritten =>
    \A k \in DOMAIN ManifestOnDisk.sprites :
      LET e == ManifestOnDisk.sprites[k]
      IN  /\ e.sheet_rect.xmax - e.sheet_rect.xmin = RectW(e.sprite_rect)
          /\ e.sheet_rect.ymax - e.sheet_rect.ymin = RectH(e.sprite_rect)

\* C5, amended: in the manifest of a completed build, when the packer placed
\* the sprites the sheet_rect of every sprite is wider and higher than its
\* sprite_rect by twice the padding, whatever the border; when the packer
\* failed every sheet_rect is (0, 0, 0, 0).
C5_SheetRectSizeIncludesPadding ==
  ManifestWritten =>
    \A k \in DOMAIN ManifestOnDisk.sprites :
      LET e == ManifestOnDisk.sprites[k]
      IN  IF pack.ok
          THEN /\ e.sheet_rect.xmax - e.sheet_rect.xmin
                    = RectW(e.sprite_rect) + 2 * args.padding
               /\ e.sheet_rect.ymax - e.sheet_rect.ymin
                    = RectH(e.sprite_rect) + 2 * args.padding
          ELSE e.sheet_rect = ZeroRect

\* A manifest was written after a successful pack with border and padding.
C5_Witness ==
  /\ ManifestWritten
  /\ pack.ok
  /\ args.padding >= 1
  /\ args.border >= 1

\* C6: for every completed build the sheet width and height are multiples of
\* 4 and, under --pot, powers of two.
C6_SheetSizeAligned ==
  ret = "true" =>
    /\ dst.w % (AlignTo + 1) = 0
    /\ dst.h % (AlignTo + 1) = 0
    /\ args.pot => IsPow2(dst.w) /\ IsPow2(dst.h)

\* Is the canvas pixel px known to be RGBA (0, 0, 0, 0)?  An untouched pixel
\* is; a copied pixel is when its source pixel is fully transparent.
IsZeroPixel(px) ==
  \/ px = Blank
  \/ /\ px[2] >= 0
     /\ AlphaOf(FileAt(args.in_filepaths[px[1]]), <<px[2], px[3]>>) = 0

\* C7: after compositing, every canvas pixel outside the blit destination
\* rectangle of every sprite is RGBA (0, 0, 0, 0).
C7_OutsideDestinationsIsZero ==
  pc \in {"save", "saved", "returned", "done"} =>
    \A L \in DOMAIN dst.px :
      LET q == <<(L - 1) % dst.w, (L - 1) \div dst.w>>
      IN  (\A k \in DOMAIN sprites : q \notin Region(DstRect(sprites[k], args.padding)))
            => IsZeroPixel(dst.px[L])

\* C8: every position of every mesh of the manifest lies within the
\* sprite_rect of its sprite, bounds included.
C8_PositionsWithinSpriteRect ==
  ManifestWritten =>
    \A k \in DOMAIN ManifestOnDisk.sprites :
      LET e == ManifestOnDisk.sprites[k]
      IN  e.mesh # NULL =>
            \A v \in DOMAIN e.mesh[1].positions :
              LET pt == e.mesh[1].positions[v]
              IN  /\ e.sprite_rect.xmin <= pt[1] /\ pt[1] <= e.sprite_rect.xmax
                  /\ e.sprite_rect.ymin <= pt[2] /\ pt[2] <= e.sprite_rect.ymax

\* C9: for every sprite that has triangles, every stored index is below
\* num_points, tris holds 3 * num_tris indices, pts holds num_points points
\* and, from the UV loop to the end of atlasc__save, so does uvs; the mesh
\* written to the manifest has the same counts.
C9_MeshArraysConsistent ==
  /\ \A k \in DOMAIN sprites :
       LET spr == sprites[k]
       IN  spr.num_tris > 0 =>
             /\ spr.tris # NULL /\ spr.pts # NULL
             /\ Len(spr.tris[1]) = 3 * spr.num_tris
             /\ \A t \in DOMAIN spr.tris[1] : spr.tris[1][t] < spr.num_points
             /\ Len(spr.pts[1]) = spr.num_points
             /\ pc \in {"blit", "save", "saved"} =>
                  spr.uvs # NULL /\ Len(spr.uvs[1]) = spr.num_points
  /\ ManifestWritten =>
       \A k \in DOMAIN ManifestOnDisk.sprites :
         LET e == ManifestOnDisk.sprites[k]
         IN  e.mesh # NULL =>
               /\ e.mesh[1].num_tris > 0
               /\ Len(e.mesh[1].indices) = 3 * e.mesh[1].num_tris
               /\ \A t \in DOMAIN e.mesh[1].indices :
                    e.mesh[1].indices[t] < e.mesh[1].num_vertices
               /\ Len(e.mesh[1].positions) = e.mesh[1].num_vertices
               /\ Len(e.mesh[1].uvs) = e.mesh[1].num_vertices

\* A manifest was written with a mesh of two triangles.
C9_Witness ==
  /\ ManifestWritten
  /\ \E k \in DOMAIN ManifestOnDisk.sprites :
       /\ ManifestOnDisk.sprites[k].mesh # NULL
       /\ ManifestOnDisk.sprites[k].mesh[1].num_tris >= 2

\* What atlasc_make derives from the input file at path: its size and the
\* bounding rectangle of its outline.
ExpectedSize(path) == <<FileAt(path).w, FileAt(path).h>>
ExpectedSpriteRect(path, threshold) ==
  LET img == FileAt(path)
      T == s2o_alpha_to_thresholded(img, threshold)
      O == s2o_thresholded_to_outlined(img, s2o_dilate_thresholded(img, T))
  IN  SpriteRectOf(s2o_extract_outline_path(img, O))

\* C10: the manifest has one entry per -i argument, and entry k carries the
\* name (with forward slashes), the size and the sprite_rect of the k-th
\* argument and the sheet_rect derived from the k-th packed rectangle, which
\* has the size of that sprite_rect plus border and padding.
C10_ManifestFollowsCommandLine ==
  ManifestWritten =>
    /\ Len(ManifestOnDisk.sprites) = Len(args.in_filepaths)
    /\ \A k \in DOMAIN args.in_filepaths :
         LET e == ManifestOnDisk.sprites[k]
             path == args.in_filepaths[k]
             rc == ExpectedSpriteRect(path, args.alpha_threshold)
         IN  /\ Len(e.name) = Len(path)
             /\ \A c \in DOMAIN path :
                  e.name[c] = (IF path[c] = "\\" THEN "/" ELSE path[c])
             /\ e.size = ExpectedSize(path)
             /\ e.sprite_rect = rc
             /\ pack.ok =>
                  /\ pack.rects[k].w = RectW(rc) + 2 * (args.border + args.padding)
                  /\ pack.rects[k].h = RectH(rc) + 2 * (args.border + args.padding)
                  /\ e.sheet_rect.xmin = pack.rects[k].x + args.border
                  /\ e.sheet_rect.ymin = pack.rects[k].y + args.border
                  /\ e.sheet_rect.xmax = pack.rects[k].x + pack.rects[k].w - args.border
                  /\ e.sheet_rect.ymax = pack.rects[k].y + pack.rects[k].h - args.border

\* A manifest was written for two different images, one of them named with
\* a backslash, after a successful pack.
C10_Witness ==
  /\ ManifestWritten
  /\ pack.ok
  /\ args.in_filepaths = <<P_sq, P_dot>>

\* C7 restricted to the runs in which the packer placed the sprites.
OutsideDestinationsIsZeroWhenPacked == pack.ok => C7_OutsideDestinationsIsZero


(***************************************************************************)
(* The bounding rectangle of a sprite.                                     *)
(***************************************************************************)
\* The pixels of an input whose alpha reaches the threshold.
OpaquePixels(path, threshold) == s2o_alpha_to_thresholded(FileAt(path), threshold)

\* The rectangle (x0, y0, x1, y1), maxes exclusive, around a set of pixels.
PixelBounds(T) ==
  LET xs == {q[1] : q \in T}
      ys == {q[2] : q \in T}
      lo(S) == CHOOSE v \in S : \A u \in S : v <= u
      hi(S) == CHOOSE v \in S : \A u \in S : v >= u
  IN  sx_irecti(lo(xs), lo(ys), hi(xs) + 1, hi(ys) + 1)

\* The opaque pixels form exactly one axis-aligned rectangle.
OpaqueIsRectangle(path, threshold) ==
  LET T == OpaquePixels(path, threshold)
  IN  T # {} /\ T = Region(PixelBounds(T))

\* The outline path the decoding of an input gives.
ExpectedOutline(path, threshold) ==
  LET img == FileAt(path)
      T == s2o_alpha_to_thresholded(img, threshold)
      O == s2o_thresholded_to_outlined(img, s2o_dilate_thresholded(img, T))
  IN  s2o_extract_outline_path(img, O)

\* C11: for a single input whose opaque pixels form exactly the rectangle
\* [x0, x1) x [y0, y1), the sprite_rect of the manifest equals
\* (x0, y0, x1, y1).
C11_RectangleSpriteRectIsItsBounds ==
  (ManifestWritten /\ Len(args.in_filepaths) = 1
     /\ OpaqueIsRectangle(args.in_filepaths[1], args.alpha_threshold)) =>
    ManifestOnDisk.sprites[1].sprite_rect
      = PixelBounds(OpaquePixels(args.in_filepaths[1], args.alpha_threshold))

\* The sprites whose input has an empty outline.
EmptyOutlineSprites ==
  {k \in DOMAIN args.in_filepaths :
     /\ FileAt(args.in_filepaths[k]).kind = "image"
     /\ ExpectedOutline(args.in_filepaths[k], args.alpha_threshold) = <<>>}

\* C12: when an outline is empty, the packed width and height are never
\* derived from the sentinel rectangle through 32-bit overflow, and a build
\* that returns true has given the sprite a sprite_rect of zero width and
\* height and copied none of its pixels onto the canvas.
C12_EmptyOutlineIsHarmless ==
  \A k \in EmptyOutlineSprites :
    /\ pack.rects # <<>> => ~RectOverflows(sprites[k].sprite_rect)
    /\ ret = "true" =>
         /\ sprites[k].sprite_rect.xmax = sprites[k].sprite_rect.xmin
         /\ sprites[k].sprite_rect.ymax = sprites[k].sprite_rect.ymin
         /\ \A L \in DOMAIN dst.px : dst.px[L] = Blank \/ dst.px[L][1] # k

\* C13: every input with at least one pixel of alpha at or above the
\* threshold gets a sprite_rect of width at least 1 and height at least 1.
C13_OpaqueSpriteRectIsNotEmpty ==
  ManifestWritten =>
    \A k \in DOMAIN args.in_filepaths :
      OpaquePixels(args.in_filepaths[k], args.alpha_threshold) # {} =>
        /\ ManifestOnDisk.sprites[k].sprite_rect.xmax
             - ManifestOnDisk.sprites[k].sprite_rect.xmin >= 1
        /\ ManifestOnDisk.sprites[k].sprite_rect.ymax
             - ManifestOnDisk.sprites[k].sprite_rect.ymin >= 1

\* C14: whenever atlasc_make has returned false, g_error_str holds a message
\* written during the call, and main has printed that message by the time
\* the process exits with a non-zero code.
C14_FailureIsReported ==
  /\ ret = "false" => g_error_str # ""
  /\ (pc = "done" /\ ret = "false") => exit_code # "0" /\ g_error_str \in console

(***************************************************************************)
(* The checks of main.                                                     *)
(***************************************************************************)
\* The command line has no -i, no -o, or an -i path that is not a file.
InvalidCommandLine ==
  \/ args.in_filepaths = <<>>
  \/ args.out_filepath = NULL
  \/ \E k \in DOMAIN args.in_filepaths : FileAt(args.in_filepaths[k]).kind = "missing"

\* No image has been decoded and no output file has been written.
NothingDecodedOrWritten ==
  /\ files = NoFiles
  /\ \A b \in heap : b[1] # "src_image"
  /\ \A k \in DOMAIN sprites : sprites[k].src_image = NULL

SizingCommandLines ==
  { [in_filepaths |-> <<P_sq>>, out_filepath |-> Ptr(P_out), num_inputs |-> 1,
     alpha_threshold |-> DefaultAlphaThreshold,
     max_width |-> MaxExtent, max_height |-> MaxExtent,
     border |-> 0, padding |-> 0, pot |-> t, mesh |-> FALSE,
     max_verts_per_mesh |-> DefaultMaxVerts] : t \in BOOLEAN }

SizingInit ==
  /\ pc = "canvas"
  /\ args \in SizingCommandLines
  /\ sprites = <<>>
  /\ cur = 0
  /\ work = NoWork
  /\ \E ew \in 0 .. MaxExtent, eh \in 0 .. MaxExtent :
       pack = [NoPack EXCEPT !.ok = TRUE, !.final_rect = sx_irecti(0, 0, ew, eh)]
  /\ dst = NoDst
  /\ heap = {}
  /\ faults = {}
  /\ files = NoFiles
  /\ ret = "none"
  /\ exit_code = "running"
  /\ g_error_str = ""
  /\ console = {}

\* The sizing applied to the dimensions it produced.
size_canvas_again ==
  /\ pc = "uvs"
  /\ dst' = [dst EXCEPT !.w = CanvasDim(dst.w, args.pot),
                        !.h = CanvasDim(dst.h, args.pot)]
  /\ pc' = "resized"
  /\ UNCHANGED <<args, sprites, cur, work, pack, heap, faults, files, ret, exit_code,
                 g_error_str, console>>

SizingNext == size_canvas \/ size_canvas_again

SizingSpec == SizingInit /\ [][SizingNext]_vars

\* C16: sizing the canvas is idempotent: applied to its own result, with
\* the same pot value, it returns that result, for every extent >= 0.
C16_SizingIsIdempotent ==
  pc = "resized" =>
    /\ dst.w = CanvasDim(RectW(pack.final_rect), args.pot)
    /\ dst.h = CanvasDim(RectH(pack.final_rect), args.pot)

\* Extents 5 and 9 under --pot were rounded up to 8 and 16 and sized again.
C16_Witness ==
  /\ pc = "resized"
  /\ args.pot
  /\ RectW(pack.final_rect) = 5 /\ RectH(pack.final_rect) = 9
  /\ dst.w = 8 /\ dst.h = 16

(***************************************************************************)
(* The size of the sheet and of the meshes.                                *)
(***************************************************************************)
\* C17: for every build that returns true, the canvas is at most max_width
\* wide and max_height high, alignment and power-of-two rounding included.
C17_SheetWithinMaximum ==
  ret = "true" => dst.w <= args.max_width /\ dst.h <= args.max_height

\* C18: every mesh of the manifest has at most max_verts_per_mesh vertices.
C18_MeshWithinMaxVerts ==
  ManifestWritten =>
    \A k \in DOMAIN ManifestOnDisk.sprites :
      ManifestOnDisk.sprites[k].mesh # NULL =>
        ManifestOnDisk.sprites[k].mesh[1].num_vertices <= args.max_verts_per_mesh

\* A manifest holds a mesh of exactly max_verts_per_mesh vertices, reached
\* after more than one pass of the simplifier.
C18_Witness ==
  /\ ManifestWritten
  /\ args.max_verts_per_mesh = 3
  /\ \E k \in DOMAIN ManifestOnDisk.sprites :
       /\ ManifestOnDisk.sprites[k].mesh # NULL
       /\ ManifestOnDisk.sprites[k].mesh[1].num_vertices = 3
       /\ Len(s2o_distance_based_path_simplification(
                ExpectedOutline(args.in_filepaths[k], args.alpha_threshold), 1)) > 3

\* C19: when atlasc__fix_outline_pts has finished its sweep, the line of no
\* polygon edge touches a set pixel of the thresholded mask.
C19_NoEdgeTouchesMaskAfterSweep ==
  (pc = "triangulate" /\ FileAt(args.in_filepaths[cur]).kind = "image") =>
    \A k \in DOMAIN work.temp_pts :
      ~atlasc__test_line(work.thresholded, FileAt(args.in_filepaths[cur]).w,
                         FileAt(args.in_filepaths[cur]).h,
                         work.temp_pts[k], work.temp_pts[NextIdx(Len(work.temp_pts), k)])

(***************************************************************************)
(* The simplification loop.                                                *)
(***************************************************************************)
\* C20: the do-while loop of atlasc__make_mesh terminates for every outline
\* and every max_verts_per_mesh the command line can give: a run that has
\* entered the loop leaves it.
C20_SimplifyLoopTerminates ==
  (pc = "simplify") ~> (pc \notin {"simplify", "simplify_run"})

(***************************************************************************)
(* The outline corrector.                                                  *)
(***************************************************************************)
\* The floor of each displaced coordinate of pts[k], clamped to the image.
FlooredAndClamped(pts, k, amount, w, h) ==
  LET v == OffsetVec(pts, k, amount)
  IN  <<sx_clamp(v[1] \div FP, 0, w), sx_clamp(v[2] \div FP, 0, h)>>

\* The edge from pts[i] is about to be corrected: the while condition of
\* atlasc__fix_outline_pts is true.
EdgeCrossesMask ==
  /\ pc = "fix_while"
  /\ atlasc__test_line(work.thresholded, sprites[cur].src_size[1], sprites[cur].src_size[2],
                       work.temp_pts[work.i],
                       work.temp_pts[NextIdx(Len(work.temp_pts), work.i)])

\* C21: atlasc__offset_pt stores the floor of each displaced coordinate
\* clamped to [0, w] x [0, h], negative displaced values included; it
\* modifies pts[pt_idx] only, and it returns true (the loop goes on to offset
\* pts[next_i]) exactly when the stored point differs from the previous one.
C21_OffsetIsFloorThenClamp ==
  [][(EdgeCrossesMask /\ ~DegenerateAt(work.temp_pts, work.i)) =>
       LET pts == work.temp_pts
           i == work.i
           next_i == NextIdx(Len(pts), i)
           stored == FlooredAndClamped(pts, i, 2, sprites[cur].src_size[1],
                                       sprites[cur].src_size[2])
       IN  /\ work'.temp_pts[i] = stored \/ (next_i = i /\ stored # pts[i])
           /\ Len(work'.temp_pts) = Len(pts)
           /\ \A m \in DOMAIN pts : m \notin {i, next_i} => work'.temp_pts[m] = pts[m]
           /\ stored = pts[i] => work'.temp_pts = pts /\ pc' = "fix_outline"
           /\ stored # pts[i] => pc' = "fix_while"]_vars

\* The triangle (1,1),(4,2),(2,4): the first vertex is displaced to about
\* (-0.4, -0.4), a negative value with a fraction, and was stored as (0,0).
C21_Witness ==
  /\ pc = "fix_while"
  /\ work.i = 1
  /\ work.temp_pts = <<<<0, 0>>, <<5, 1>>, <<2, 4>>>>
  /\ OffsetVec(<<<<1, 1>>, <<4, 2>>, <<2, 4>>>>, 1, 2)[1] < 0
  /\ OffsetVec(<<<<1, 1>>, <<4, 2>>, <<2, 4>>>>, 1, 2)[1] % FP # 0
  /\ FlooredAndClamped(<<<<1, 1>>, <<4, 2>>, <<2, 4>>>>, 1, 2, 6, 6) = <<0, 0>>

(***************************************************************************)
(* The compositor.                                                         *)
(***************************************************************************)
\* The canvas has been composited.
Composited == pc \in {"save", "saved", "returned", "done"} /\ dst.px # <<>>

\* C22: for every sprite the destination rectangle of the blit (sheet_rect
\* contracted by padding) has the width and height of sprite_rect, and each
\* of its pixels on the canvas is the source pixel at the same offset from
\* the min corner of sprite_rect.
C22_DestinationIsSpriteRectCopy ==
  Composited =>
    \A k \in DOMAIN sprites :
      LET spr == sprites[k]
          d == DstRect(spr, args.padding)
      IN  /\ d.xmax - d.xmin = spr.sprite_rect.xmax - spr.sprite_rect.xmin
          /\ d.ymax - d.ymin = spr.sprite_rect.ymax - spr.sprite_rect.ymin
          /\ \A r \in 0 .. (d.ymax - d.ymin - 1), c \in 0 .. (d.xmax - d.xmin - 1) :
               LET L == (d.ymin + r) * dst.w + d.xmin + c + 1
               IN  /\ d.xmin + c >= 0 /\ d.xmin + c < dst.w
                   /\ L \in DOMAIN dst.px
                   /\ dst.px[L] = <<k, spr.sprite_rect.xmin + c, spr.sprite_rect.ymin + r>>

\* The same for the builds whose packing succeeded and whose sprites all
\* have an outline.
C22_WhenPackedAndOutlined ==
  (pack.ok /\ EmptyOutlineSprites = {}) => C22_DestinationIsSpriteRectCopy

\* C23: for every sprite with a mesh and every vertex v,
\* uvs[v] = (positions[v] - sprite_rect.min) + (sheet_rect.min + (padding,
\* padding)), and the canvas pixel at uvs[v] is the source pixel
\* positions[v] as the compositor copied it.
C23_UVsAddressCopiedPixels ==
  (ManifestWritten /\ Composited) =>
    \A k \in DOMAIN ManifestOnDisk.sprites :
      LET e == ManifestOnDisk.sprites[k]
      IN  e.mesh # NULL =>
            \A v \in 1 .. e.mesh[1].num_vertices :
              LET p == e.mesh[1].positions[v]
                  uv == e.mesh[1].uvs[v]
                  L == uv[2] * dst.w + uv[1] + 1
              IN  /\ uv[1] = p[1] - e.sprite_rect.xmin + e.sheet_rect.xmin + args.padding
                  /\ uv[2] = p[2] - e.sprite_rect.ymin + e.sheet_rect.ymin + args.padding
                  /\ uv[1] >= 0 /\ uv[1] < dst.w
                  /\ L \in DOMAIN dst.px
                  /\ dst.px[L] = <<k, p[1], p[2]>>

\* The arithmetic of the uvs alone.
C23_UVFormula ==
  ManifestWritten =>
    \A k \in DOMAIN ManifestOnDisk.sprites :
      LET e == ManifestOnDisk.sprites[k]
      IN  e.mesh # NULL =>
            \A v \in 1 .. e.mesh[1].num_vertices :
              /\ e.mesh[1].uvs[v][1] = e.mesh[1].positions[v][1] - e.sprite_rect.xmin
                                         + e.sheet_rect.xmin + args.padding
              /\ e.mesh[1].uvs[v][2] = e.mesh[1].positions[v][2] - e.sprite_rect.ymin
                                         + e.sheet_rect.ymin + args.padding

(***************************************************************************)
(* atlasc__test_line on its own: the end points are drawn from             *)
(* -1 .. MaxLineCoord in both axes, around a mask of LineImageSize         *)
(* pixels a side, and the walk is recorded.                                *)
(***************************************************************************)
\* A variant of TestLineWalkFrom that samples the mask without the bounds
\* test.
RECURSIVE TestLineWalkFrom_unguarded(_, _, _, _, _, _, _, _, _, _)
TestLineWalkFrom_unguarded(mask, w, h, p0, p1, x, y, err, visited, reads) ==
  LET dx == Abs(p1[1] - p0[1])
      dy == -Abs(p1[2] - p0[2])
      sx == IF p0[1] < p1[1] THEN 1 ELSE -1
      sy == IF p0[2] < p1[2] THEN 1 ELSE -1
      seen == Append(visited, <<x, y>>)
      read == reads \cup {<<x, y>>}
  IN  IF <<x, y>> \in mask
      THEN [hit |-> TRUE, visited |-> seen, reads |-> read]
      ELSE IF x = p1[1] /\ y = p1[2]
      THEN [hit |-> FALSE, visited |-> seen, reads |-> read]
      ELSE LET e2 == 2 * err
               stepx == e2 >= dy
               err1 == IF stepx THEN err + dy ELSE err
               nx == IF stepx THEN x + sx ELSE x
               stepy == e2 <= dx
               err2 == IF stepy THEN err1 + dx ELSE err1
               ny == IF stepy THEN y + sy ELSE y
           IN  TestLineWalkFrom_unguarded(mask, w, h, p0, p1, nx, ny, err2, seen, read)

\* atlasc__test_line with its walk: hit is the value returned, visited the
\* pixels the loop stood on, in order, and reads the pixels whose byte was
\* read.
RECURSIVE TestLineWalkFrom(_, _, _, _, _, _, _, _, _, _)
TestLineWalkFrom(mask, w, h, p0, p1, x, y, err, visited, reads) ==
  LET dx == Abs(p1[1] - p0[1])
      dy == -Abs(p1[2] - p0[2])
      sx == IF p0[1] < p1[1] THEN 1 ELSE -1
      sy == IF p0[2] < p1[2] THEN 1 ELSE -1
      inside == x > -1 /\ y > -1 /\ x < w /\ y < h
      seen == Append(visited, <<x, y>>)
      read == IF inside THEN reads \cup {<<x, y>>} ELSE reads
  IN  IF inside /\ <<x, y>> \in mask
      THEN [hit |-> TRUE, visited |-> seen, reads |-> read]
      ELSE IF x = p1[1] /\ y = p1[2]
      THEN [hit |-> FALSE, visited |-> seen, reads |-> read]
      ELSE LET e2 == 2 * err
               stepx == e2 >= dy
               err1 == IF stepx THEN err + dy ELSE err
               nx == IF stepx THEN x + sx ELSE x
               stepy == e2 <= dx
               err2 == IF stepy THEN err1 + dx ELSE err1
               ny == IF stepy THEN y + sy ELSE y
           IN  TestLineWalkFrom(mask, w, h, p0, p1, nx, ny, err2, seen, read)

TestLineWalk(mask, w, h, p0, p1) ==
  TestLineWalkFrom(mask, w, h, p0, p1, p0[1], p0[2],
                   Abs(p1[1] - p0[1]) - Abs(p1[2] - p0[2]), <<>>, {})

LineCoords == (-1 .. MaxLineCoord) \X (-1 .. MaxLineCoord)

\* The bytes next to the mask count as set, so that a read outside
\* [0, w) x [0, h) would show.
LineMasks ==
  LET outside == LineCoords \ Pixels(LineImageSize, LineImageSize)
  IN  { outside, outside \cup {<<1, 1>>}, outside \cup {<<0, 2>>, <<2, 0>>},
        outside \cup {<<0, 0>>, <<2, 2>>} }

LineInit ==
  /\ pc = "test_line"
  /\ args \in SizingCommandLines
  /\ sprites = <<[ZeroSprite EXCEPT !.src_size = <<LineImageSize, LineImageSize>>]>>
  /\ cur = 1
  /\ \E p0 \in LineCoords, p1 \in LineCoords, mask \in LineMasks :
       work = [NoWork EXCEPT !.temp_pts = <<p0, p1>>, !.thresholded = mask]
  /\ pack = NoPack
  /\ dst = NoDst
  /\ heap = {}
  /\ faults = {}
  /\ files = NoFiles
  /\ ret = "none"
  /\ exit_code = "running"
  /\ g_error_str = ""
  /\ console = {}

\* One call of atlasc__test_line on the edge temp_pts[1] -> temp_pts[2]; the
\* pixels it stood on are kept in work.pts.
test_line_call ==
  /\ pc = "test_line"
  /\ LET walk == TestLineWalk(work.thresholded, sprites[cur].src_size[1],
                              sprites[cur].src_size[2], work.temp_pts[1], work.temp_pts[2])
     IN  /\ work' = [work EXCEPT !.pts = walk.visited]
         /\ faults' = IF walk.reads \subseteq Pixels(sprites[cur].src_size[1],
                                                     sprites[cur].src_size[2])
                      THEN faults ELSE faults \cup {"read_past_mask"}
         /\ pc' = IF walk.hit THEN "line_hit" ELSE "line_clear"
  /\ UNCHANGED <<args, sprites, cur, pack, dst, heap, files, ret, exit_code,
                 g_error_str, console>>

LineNext == test_line_call

LineSpec == LineInit /\ [][LineNext]_vars

\* The pixels of the whole line from p0 to p1: the walk over a mask with no
\* pixel set.
FullLine(p0, p1) == TestLineWalk({}, LineImageSize, LineImageSize, p0, p1).visited

\* C24: atlasc__test_line visits p0 first and p1 last along an 8-connected
\* chain of max(|dx|, |dy|) + 1 pixels, reads no byte outside
\* [0, w) x [0, h), and returns true exactly when a visited pixel inside the
\* image is set, having stopped on the first such pixel.
C24_TestLineIsBresenham ==
  pc \in {"line_hit", "line_clear"} =>
    LET p0 == work.temp_pts[1]
        p1 == work.temp_pts[2]
        w == sprites[cur].src_size[1]
        h == sprites[cur].src_size[2]
        full == FullLine(p0, p1)
        hits == {n \in DOMAIN full : full[n] \in Pixels(w, h) /\ full[n] \in work.thresholded}
    IN  /\ full[1] = p0
        /\ full[Len(full)] = p1
        /\ Len(full) = Max(Abs(p1[1] - p0[1]), Abs(p1[2] - p0[2])) + 1
        /\ \A n \in 1 .. (Len(full) - 1) :
             Max(Abs(full[n + 1][1] - full[n][1]), Abs(full[n + 1][2] - full[n][2])) = 1
        /\ "read_past_mask" \notin faults
        /\ (pc = "line_hit") = (hits # {})
        /\ (pc = "line_hit") = atlasc__test_line(work.thresholded, w, h, p0, p1)
        /\ hits = {} => work.pts = full
        /\ hits # {} => /\ Len(work.pts) \in hits
                        /\ \A n \in hits : Len(work.pts) <= n
                        /\ work.pts = SubSeq(full, 1, Len(work.pts))

\* A line that starts outside the image at (-1,-1), runs to (3,3), again
\* outside, and stopped on the set pixel (1,1), its third pixel.
C24_Witness ==
  /\ pc = "line_hit"
  /\ work.temp_pts = <<<<-1, -1>>, <<MaxLineCoord, MaxLineCoord>>>>
  /\ work.pts = <<<<-1, -1>>, <<0, 0>>, <<1, 1>>>>
  /\ <<0, 0>> \notin work.thresholded

(***************************************************************************)
(* The bounding rectangle and the opaque pixels; the corrector's assertion; *)
(* the triangulator's input.                                               *)
(***************************************************************************)
\* C25: the sprite_rect of the manifest, with inclusive mins and exclusive
\* maxes, contains every pixel of its input whose alpha is at or above the
\* threshold, the last column and the last row of the image included.
C25_SpriteRectContainsOpaquePixels ==
  ManifestWritten =>
    \A k \in DOMAIN args.in_filepaths :
      \A q \in OpaquePixels(args.in_filepaths[k], args.alpha_threshold) :
        /\ ManifestOnDisk.sprites[k].sprite_rect.xmin <= q[1]
        /\ q[1] < ManifestOnDisk.sprites[k].sprite_rect.xmax
        /\ ManifestOnDisk.sprites[k].sprite_rect.ymin <= q[2]
        /\ q[2] < ManifestOnDisk.sprites[k].sprite_rect.ymax

\* C26: at the assertion at the top of each iteration of
\* atlasc__fix_outline_pts, pts[i] lies inside [0, w) x [0, h) and the
\* thresholded mask is zero there: the assertion never fails and never reads
\* outside the mask.
C26_AssertedPointIsClearAndInside ==
  /\ "assert_point_in_mask" \notin faults
  /\ (pc = "fix_outline" /\ work.i <= Len(work.temp_pts)) =>
       /\ work.temp_pts[work.i] \in Pixels(sprites[cur].src_size[1], sprites[cur].src_size[2])
       /\ work.temp_pts[work.i] \notin work.thresholded

\* C27: in mesh mode the triangulator is only ever called with at least
\* three points.
C27_TriangulatorGetsThreePoints ==
  /\ "triangulate_under_three" \notin faults
  /\ pc = "triangulate" => Len(work.temp_pts) >= 3

(***************************************************************************)
(* atlasc__fix_outline_pts on its own.  The image is a square of           *)
(* FixImageSize pixels a side, opaque everywhere but on its border, so     *)
(* that its outline is the border ring; the polygon is any two or three    *)
(* points of the ring in traversal order, as a simplifier that keeps a     *)
(* subset of the outline may return.                                       *)
(***************************************************************************)
FixRing ==
  LET n == FixImageSize
      top == [k \in 1 .. n |-> <<k - 1, 0>>]
      right == [k \in 1 .. (n - 1) |-> <<n - 1, k>>]
      bottom == [k \in 1 .. (n - 1) |-> <<n - 1 - k, n - 1>>]
      left == [k \in 1 .. (n - 2) |-> <<0, n - 1 - k>>]
  IN  top \o right \o bottom \o left

FixImage ==
  Image(FixImageSize, FixImageSize,
        (1 .. (FixImageSize - 2)) \X (1 .. (FixImageSize - 2)), {}, FixRing)

FixPolygons ==
  {<<FixRing[a], FixRing[b]>> : a \in DOMAIN FixRing, b \in DOMAIN FixRing}
    \cup {<<FixRing[a], FixRing[b], FixRing[c]>> :
            a \in DOMAIN FixRing, b \in DOMAIN FixRing, c \in DOMAIN FixRing}

\* The index sequences are increasing: the points keep the order of the
\* outline.
InTraversalOrder(P) ==
  \E a \in DOMAIN FixRing, b \in DOMAIN FixRing, c \in DOMAIN FixRing :
    /\ a < b /\ b <= c
    /\ P = (IF b = c THEN <<FixRing[a], FixRing[b]>>
            ELSE <<FixRing[a], FixRing[b], FixRing[c]>>)

FixInit ==
  /\ TraceIsOutline(FixImage)
  /\ pc = "fix_outline"
  /\ args \in {[a EXCEPT !.mesh = TRUE, !.max_verts_per_mesh = m] :
                 a \in {c \in SizingCommandLines : ~c.pot}, m \in {2, 3}}
  /\ sprites = <<[ZeroSprite EXCEPT !.src_size = <<FixImageSize, FixImageSize>>]>>
  /\ cur = 1
  /\ \E P \in FixPolygons :
       /\ InTraversalOrder(P)
       /\ Len(P) = args.max_verts_per_mesh
       /\ work = [NoWork EXCEPT !.pts = FixRing, !.temp_pts = P,
                                !.thresholded = FixImage.solid, !.i = 1]
  /\ pack = NoPack
  /\ dst = NoDst
  /\ heap = {}
  /\ faults = {}
  /\ files = NoFiles
  /\ ret = "none"
  /\ exit_code = "running"
  /\ g_error_str = ""
  /\ console = {}

FixNext == fix_outline_next \/ fix_outline_while

\* The process is never suspended inside the correction loop.
FixSpec == FixInit /\ [][FixNext]_vars /\ WF_vars(fix_outline_while)

\* C28: the while loop of atlasc__fix_outline_pts ends for every edge: a
\* sweep that has entered the loop of an edge leaves it.
C28_CorrectionLoopTerminates ==
  (pc = "fix_while") ~> (pc # "fix_while")

\* The same for polygons of three points.
C28_TrianglesTerminate ==
  (pc = "fix_while" /\ Len(work.temp_pts) >= 3) ~> (pc # "fix_while")

(***************************************************************************)
(* The blit destinations and the canvas.                                   *)
(***************************************************************************)
\* C29: for every sprite the destination rectangle of the blit,
\* [dst_x, dst_x + w) x [dst_y, dst_y + h) with w and h the width and height
\* of sprite_rect, lies inside the allocated canvas [0, dst_w) x [0, dst_h).
C29_DestinationsInsideCanvas ==
  (pc \in {"blit", "save", "saved"} /\ <<"dst", 0>> \in heap) =>
    \A k \in DOMAIN sprites :
      \A q \in BlitCells(sprites[k]) :
        LET d == DstRect(sprites[k], args.padding)
        IN  /\ 0 <= d.xmin + q[2] /\ d.xmin + q[2] < dst.w
            /\ 0 <= d.ymin + q[1] /\ d.ymin + q[1] < dst.h

\* The same for the builds whose packing succeeded and whose sprites all
\* have an outline.
C29_WhenPackedAndOutlined ==
  (pack.ok /\ EmptyOutlineSprites = {}) => C29_DestinationsInsideCanvas

(***************************************************************************)
(* The edge vectors of atlasc__offset_pt.                                  *)
(***************************************************************************)
\* C30: whenever atlasc__offset_pt is called for a vertex during the sweep,
\* the vertex differs from its cyclic predecessor and from its cyclic
\* successor, so that no zero vector is normalised: for the call on pts[i]
\* and for the call on pts[next_i] that follows when pts[i] has moved.
C30_OffsetVertexDiffersFromNeighbours ==
  EdgeCrossesMask =>
    LET pts == work.temp_pts
        i == work.i
        next_i == NextIdx(Len(pts), i)
    IN  /\ ~DegenerateAt(pts, i)
        /\ \A p1 \in atlasc__offset_pt(pts, i, 2, sprites[cur].src_size[1],
                                       sprites[cur].src_size[2]) :
             p1 # pts[i] => ~DegenerateAt([pts EXCEPT ![i] = p1], next_i)
====
